---- MODULE Spec2Model ----
(***************************************************************************)
(* Model of compress_media.py: the batch pipeline that discovers media     *)
(* files under a root directory, re-encodes them with external tools in a  *)
(* thread pool, installs the result and prints a per-extension summary.    *)
(*                                                                         *)
(* A path is a sequence of tokens: the directory, then the pieces of the   *)
(* file name (<<"root","a","_temp",".mp4">> is root/a_temp.mp4).  A file   *)
(* on disk is a record: kind ("orig", "partial", "enc"), src (the path     *)
(* whose original stream it holds or was encoded from), tags (the path     *)
(* whose original tags it carries, <<>> when none were copied) and stamp   *)
(* (the path whose original timestamps it carries, <<>> for the time of    *)
(* its own creation) and writer (the call whose encoder has the file open  *)
(* for writing, 0 for none).  A rename moves the file with its writer; a   *)
(* file that another is renamed onto is gone from the tree, and what its   *)
(* writer still writes to it is seen by nobody.                            *)
(***************************************************************************)
EXTENDS Integers, Sequences, FiniteSets, TLC

\* Largest number of files on disk under the root when the run starts.
MaxFiles == 2
\* Largest batch size the user enters.
MaxBatch == 2
\* Default answer to the video bitrate prompt, in kbps.
DefaultVideoBitrate == 3000

RequiredTools == {"ffmpeg", "ffprobe", "exiftool"}
Modes == {"nvidia", "intel", "cpu"}

\* Tokens that begin with a dot: the only ones os.path.splitext can split off.
ExtTokens == {".mp4", ".JPG", ".jpg", ".jpeg", ".png", ".txt"}

\* str.lower() on the tokens of the model.
Lower(tok) ==
    CASE tok = ".JPG"   -> ".jpg"
      [] tok = "FFmpeg" -> "ffmpeg"
      [] tok = "Compressed" -> "compressed"
      [] OTHER -> tok

\* The files that may be on disk under the root before the run: "root" is
\* the root directory itself, "sub" and "FFmpeg" are directories in it.
CandidateFiles ==
    { <<"root", "a", ".mp4">>,
      <<"root", "a", "_temp", ".mp4">>,
      <<"root", "b", ".JPG">>,
      <<"root", ".mp4">>,
      <<"root", "c", ".png">>,
      <<"root", "n", ".txt">>,
      <<"sub", "a", ".mp4">>,
      <<"FFmpeg", "a", ".mp4">> }

\* os.path.join(root_directory, "Compressed")
OutputDir == "Compressed"

Original(p) ==
    [kind |-> "orig", src |-> p, tags |-> p, stamp |-> p, writer |-> 0]

\* A dictionary (or the directory tree) as a function with a growing domain.
Put(f, k, v) == [x \in (DOMAIN f) \cup {k} |-> IF x = k THEN v ELSE f[x]]
Remove(f, k) == [x \in (DOMAIN f) \ {k} |-> f[x]]
Get(f, k, default) == IF k \in DOMAIN f THEN f[k] ELSE default

----------------------------------------------------------------------------
\* Path functions of process_file and get_media_files.

Dir(p) == p[1]
Basename(p) == Tail(p)

\* os.path.splitext: the extension is the last dot-token of the file name,
\* unless that token is the whole name (leading dots are not an extension).
Splitext(p) ==
    IF Len(p) >= 3 /\ p[Len(p)] \in ExtTokens
    THEN <<SubSeq(p, 1, Len(p) - 1), p[Len(p)]>>
    ELSE <<p, "">>

\* path.lower().endswith(suffixes)
EndsWith(p, suffixes) == Lower(p[Len(p)]) \in suffixes

\* f"{os.path.splitext(input_file)[0]}_temp{os.path.splitext(input_file)[1]}"
TempOutput(p) ==
    Splitext(p)[1] \o <<"_temp">> \o
        (IF Splitext(p)[2] = "" THEN <<>> ELSE <<Splitext(p)[2]>>)

\* input_file if replace_original else os.path.join(output_dir, filename)
OutputFile(p, replace) == IF replace THEN p ELSE <<OutputDir>> \o Basename(p)

\* os.path.splitext(input_file)[1].lower()
ResultExt(p) == Lower(Splitext(p)[2])

\* any(excluded in dirpath.lower() for excluded in ["ffmpeg", "exiftool"])
ExcludedDir(d) == Lower(d) \in {"ffmpeg", "exiftool"}

MediaExts == {".mp4", ".jpg", ".jpeg", ".png"}

IsMedia(p) == ~ExcludedDir(Dir(p)) /\ EndsWith(p, MediaExts)

\* The set get_media_files returns for the directory tree f.
MediaSet(f) == {p \in DOMAIN f : IsMedia(p)}

\* The sequences that list every element of the set S once.
RECURSIVE Orderings(_)
Orderings(S) ==
    IF S = {} THEN {<<>>}
    ELSE UNION {{Append(s, x) : s \in Orderings(S \ {x})} : x \in S}

\* What os.walk(root_dir) fixes about the order of the files it yields: the
\* files of the root directory come before those of its sub-directories
\* (topdown), and the files of one directory come together.  The order of the
\* names inside a directory is the order os.scandir returns them in, which
\* the file system chooses.
IsWalkOrder(s) ==
    /\ \A i, j \in DOMAIN s :
          (i < j /\ Dir(s[j]) = "root") => Dir(s[i]) = "root"
    /\ \A i, j, k \in DOMAIN s :
          (i < k /\ k < j /\ Dir(s[i]) = Dir(s[j])) => Dir(s[k]) = Dir(s[i])

\* get_media_files: the lists it can return for the directory tree f, one for
\* each order os.walk can yield the media files of f in.
GetMediaFiles(f) == {s \in Orderings(MediaSet(f)) : IsWalkOrder(s)}

----------------------------------------------------------------------------
\* get_video_bitrate: ffprobe's stdout is a digit string (bits per second),
\* anything else, or the call raises.
ProbeOutputs ==
    { [kind |-> "raise", val |-> 0],
      [kind |-> "text", val |-> 0],
      [kind |-> "digits", val |-> DefaultVideoBitrate * 1000],
      [kind |-> "digits", val |-> DefaultVideoBitrate * 1000 + 999],
      [kind |-> "digits", val |-> DefaultVideoBitrate * 1000 + 1000] }

GetVideoBitrate(out) == IF out.kind = "digits" THEN out.val \div 1000 ELSE 0

\* The answers to the acceleration prompts (as the mode they select) with
\* what is_intel_cpu() and is_arm_cpu() return.
HwInputs == [requested : Modes, isIntel : BOOLEAN, isArm : BOOLEAN]

\* Hardware checks whose second test reads the mode that was requested.
ResolveAccelerationStale(requested, isIntel, isArm) ==
    LET first == IF requested = "intel" /\ ~isIntel THEN "cpu" ELSE requested
        w1 == IF requested = "intel" /\ ~isIntel THEN 1 ELSE 0
        second == IF isArm /\ requested \in {"nvidia", "intel"} THEN "cpu" ELSE first
        w2 == IF isArm /\ requested \in {"nvidia", "intel"} THEN 1 ELSE 0
    IN  [mode |-> second, warnings |-> w1 + w2]

\* The acceleration mode after the hardware checks, and the warnings printed.
ResolveAcceleration(requested, isIntel, isArm) ==
    LET first == IF requested = "intel" /\ ~isIntel THEN "cpu" ELSE requested
        w1 == IF requested = "intel" /\ ~isIntel THEN 1 ELSE 0
        second == IF isArm /\ first \in {"nvidia", "intel"} THEN "cpu" ELSE first
        w2 == IF isArm /\ first \in {"nvidia", "intel"} THEN 1 ELSE 0
    IN  [mode |-> second, warnings |-> w1 + w2]

----------------------------------------------------------------------------
VARIABLES
    phase,            \* where the main thread is
    invocable,        \* the external tools that can be started
    fs,               \* the directory tree: path -> file
    orig,             \* the directory tree before the run
    replace_original, video_bitrate, acceleration, warnings, batch_size,
    output_dir_made,  \* os.makedirs(output_dir) was called
    media_files,      \* the sequence get_media_files returned
    task,             \* per file: the state of its process_file call
    results,          \* results[idx], <<>> for None
    completed_count,
    summary,          \* the summary dict
    report,           \* the printed summary lines, <<>> before they are printed
    hw                \* the acceleration inputs of the run, when it is given them

vars == <<phase, invocable, fs, orig, replace_original, video_bitrate,
          acceleration, warnings, batch_size, output_dir_made, media_files,
          task, results, completed_count, summary, report, hw>>

config == <<replace_original, video_bitrate, acceleration, warnings,
            batch_size, output_dir_made, hw>>

\* The indices of the submitted process_file calls.
Files == 1..Len(task)

InitialTrees ==
    {[p \in S |-> Original(p)] :
        S \in {T \in SUBSET CandidateFiles : Cardinality(T) <= MaxFiles}}

\* hw when the acceleration inputs are drawn at the prompts.
NoHw == [requested |-> "nvidia", isIntel |-> FALSE, isArm |-> FALSE]

\* The state at program start, but for hw.
Start0 ==
    /\ phase = "STARTUP"
    /\ invocable \in SUBSET RequiredTools
    /\ fs \in InitialTrees
    /\ orig = fs
    /\ replace_original = TRUE
    /\ video_bitrate = DefaultVideoBitrate
    /\ acceleration = "nvidia"
    /\ warnings = 0
    /\ batch_size = 2
    /\ output_dir_made = FALSE
    /\ media_files = <<>>
    /\ task = <<>>
    /\ results = <<>>
    /\ completed_count = 0
    /\ summary = <<>>
    /\ report = <<>>

Init == Start0 /\ hw = NoHw

----------------------------------------------------------------------------
\* Main thread, before the pool.

\* The three "-version" calls: any tool that cannot be started raises, and the
\* outer handler prints the missing-tools message.
\* A check that never starts exiftool.
ToolCheckSkipsExiftool == {"ffmpeg", "ffprobe"} \subseteq invocable

\* The three subprocess.run(..., check=True) calls return normally.
ToolCheckPasses == \A t \in RequiredTools : t \in invocable

CheckTools ==
    /\ phase = "STARTUP"
    /\ phase' = IF ToolCheckPasses THEN "CONFIG" ELSE "TOOLS_MISSING"
    /\ UNCHANGED <<invocable, fs, orig, config, media_files, task, results,
                   completed_count, summary, report>>

\* The prompts, the hardware checks and os.makedirs.
ConfigureWith(replace, h, batch) ==
    /\ replace_original' = replace
    /\ video_bitrate' = DefaultVideoBitrate
    /\ acceleration' = ResolveAcceleration(h.requested, h.isIntel, h.isArm).mode
    /\ warnings' = ResolveAcceleration(h.requested, h.isIntel, h.isArm).warnings
    /\ batch_size' = batch
    /\ output_dir_made' = ~replace
    /\ phase' = "COLLECTING"
    /\ UNCHANGED <<invocable, fs, orig, media_files, task, results,
                   completed_count, summary, report, hw>>

\* The batch size prompt takes any integer, negative ones included.
BatchInputs == -1..MaxBatch

Configure ==
    /\ phase = "CONFIG"
    /\ \E replace \in BOOLEAN, h \in HwInputs, batch \in BatchInputs :
        ConfigureWith(replace, h, batch)

\* Configure on the acceleration inputs the run was given.
ConfigureGiven ==
    /\ phase = "CONFIG"
    /\ \E replace \in BOOLEAN, batch \in BatchInputs :
        ConfigureWith(replace, hw, batch)

\* A submitted call: where it is, the local variable action, what the probe
\* returned (-1 before it), how the encoder ended ("none" before it), the
\* stream the encoder read, whether shutil.copystat returned normally, the
\* steps taken after the encoder started, in order, the file exiftool read
\* the tags from (<<>> before it, then a one-element sequence) and the times
\* os.stat returned inside copystat (the same way).
NewTask == [pc |-> "queued", action |-> "SKIPPED", bitrate |-> -1,
            enc |-> "none", read |-> <<>>, copystat |-> FALSE,
            log |-> <<>>, tagread |-> <<>>, st |-> <<>>]

\* get_media_files, the empty-list exit, the summary dict, the pool and the
\* submit loop.  ThreadPoolExecutor raises ValueError for max_workers <= 0.
Discover ==
    /\ phase = "COLLECTING"
    /\ media_files' \in GetMediaFiles(fs)
    /\ IF Len(media_files') = 0
       THEN /\ phase' = "NO_FILES"
            /\ UNCHANGED <<task, results, summary>>
       ELSE /\ summary' = [e \in MediaExts |-> 0]
            /\ results' = [i \in 1..Len(media_files') |-> <<>>]
            /\ IF batch_size <= 0
               THEN /\ phase' = "CRASHED"
                    /\ UNCHANGED task
               ELSE /\ phase' = "RUNNING"
                    /\ task' = [i \in 1..Len(media_files') |-> NewTask]
    /\ UNCHANGED <<invocable, fs, orig, config, completed_count, report>>

----------------------------------------------------------------------------
\* Pool workers: one process_file call per submitted file.

PoolOpen == phase \in {"RUNNING", "UNWINDING"}

RunningPcs == {"probe", "encode", "encoding", "tagcopy", "tagwrite",
               "tagrename", "install", "stamps", "utime", "xattr", "chmod"}

InFlight == Cardinality({i \in Files : task[i].pc \in RunningPcs})

\* ThreadPoolExecutor(max_workers=batch_size): a queued call starts when a
\* worker is free, in submission order.
CanStart(i) ==
    /\ InFlight < batch_size
    /\ \A j \in Files : j < i => task[j].pc # "queued"

Input(i) == media_files[i]
Temp(i) == TempOutput(media_files[i])
Output(i) == OutputFile(media_files[i], replace_original)

IsVideo(p) == EndsWith(p, {".mp4"})
IsImage(p) == ~IsVideo(p) /\ EndsWith(p, {".jpg", ".jpeg"})

\* current_bitrate > video_bitrate
AboveThreshold(kbps, threshold) == kbps > threshold

\* The action process_file returns when the except clause has caught
\* CalledProcessError: the value assigned before the try.
ActionAfterCalledProcessError == "SKIPPED"

Finish(i, act) == task' = [task EXCEPT ![i].pc = "done", ![i].action = act]
Raise(i) == task' = [task EXCEPT ![i].pc = "raised"]
Goto(i, pc) == task' = [task EXCEPT ![i].pc = pc]

others == <<phase, invocable, orig, config, media_files, results,
            completed_count, summary, report>>

\* A process_file that restores the timestamps before it installs.
NextStepStampsFirst(pc) ==
    CASE pc = "encoding" -> "tagcopy"
      [] pc = "tagcopy"  -> "stamps"
      [] pc = "install"  -> "stamps"

\* The statement that follows a step that returned normally: the encoder,
\* then copy_metadata (inside compress_and_preserve_metadata and
\* compress_image), then os.replace / os.rename, then
\* preserve_file_timestamps.
NextStep(pc) ==
    CASE pc = "encoding" -> "tagcopy"
      [] pc = "tagcopy"  -> "install"
      [] pc = "install"  -> "stamps"

\* The first lines of process_file and the branch on the extension.
Start(i) ==
    /\ PoolOpen
    /\ task[i].pc = "queued"
    /\ CanStart(i)
    /\ IF IsVideo(Input(i)) THEN Goto(i, "probe")
       ELSE IF IsImage(Input(i)) THEN Goto(i, "encode")
       ELSE Finish(i, "SKIPPED")
    /\ UNCHANGED <<fs, others>>

\* get_video_bitrate and the comparison with the threshold.  ffprobe prints
\* no bitrate for a file that is not there.
Probe(i) ==
    /\ PoolOpen
    /\ task[i].pc = "probe"
    /\ \E out \in ProbeOutputs :
        /\ Input(i) \notin DOMAIN fs => out.kind # "digits"
        /\ IF AboveThreshold(GetVideoBitrate(out), video_bitrate)
           THEN task' = [task EXCEPT ![i].pc = "encode",
                                     ![i].bitrate = GetVideoBitrate(out)]
           ELSE task' = [task EXCEPT ![i].pc = "done",
                                     ![i].action = "SKIPPED",
                                     ![i].bitrate = GetVideoBitrate(out)]
    /\ UNCHANGED <<fs, others>>

\* The file the encoder of call i has opened and is writing, from input c.
Partial(c, i) ==
    [kind |-> "partial", src |-> c.src, tags |-> <<>>, stamp |-> <<>>,
     writer |-> i]

\* The complete encoder output for the stream s, closed.
Encoded(s) ==
    [kind |-> "enc", src |-> s, tags |-> <<>>, stamp |-> <<>>, writer |-> 0]

\* The tree after the encoder of call i has exited with 0: the file it had
\* open, wherever it is now and if it is still in the tree, is its complete
\* output c.
CloseOutput(f, i, c) ==
    [p \in DOMAIN f |-> IF f[p].writer = i THEN c ELSE f[p]]

\* The tree after the encoder of call i has exited non-zero: the file it had
\* open is closed as far as it was written.
AbandonOutput(f, i) ==
    [p \in DOMAIN f |->
        IF f[p].writer = i THEN [f[p] EXCEPT !.writer = 0] ELSE f[p]]

\* subprocess.run(ffmpeg ... temp_output, check=True) in compress_video and
\* compress_image, up to the point ffmpeg has opened its output: the process
\* cannot be started (OSError, not caught by process_file), it exits non-zero
\* before writing (CalledProcessError), or it starts writing temp_output
\* (-y: over whatever is there).  ffmpeg takes the output format from the
\* extension of temp_output (no -f is passed) and reads an existing input.
EncodeLaunch(i) ==
    /\ PoolOpen
    /\ task[i].pc = "encode"
    /\ \/ /\ task' = [task EXCEPT ![i].pc = "raised", ![i].enc = "launch"]
          /\ UNCHANGED fs
       \/ /\ task' = [task EXCEPT ![i].pc = "done", ![i].enc = "nonzero",
                                  ![i].action = ActionAfterCalledProcessError]
          /\ UNCHANGED fs
       \/ /\ Input(i) \in DOMAIN fs
          /\ Splitext(Temp(i))[2] # ""
          /\ fs' = Put(fs, Temp(i), Partial(fs[Input(i)], i))
          /\ task' = [task EXCEPT ![i].pc = "encoding",
                                  ![i].read = fs[Input(i)].src]
    /\ UNCHANGED others

\* ffmpeg exits: with 0 the file it opened holds its complete output;
\* otherwise CalledProcessError is caught by process_file, which removes
\* nothing.  The file it opened is at temp_output unless another call has
\* renamed a file onto that path in the meantime.
EncodeExit(i) ==
    /\ PoolOpen
    /\ task[i].pc = "encoding"
    /\ \/ /\ fs' = CloseOutput(fs, i, Encoded(task[i].read))
          /\ task' = [task EXCEPT ![i].pc = NextStep("encoding"),
                                  ![i].enc = "ok",
                                  ![i].log = Append(@, "encoded")]
       \/ /\ fs' = AbandonOutput(fs, i)
          /\ task' = [task EXCEPT ![i].pc = "done", ![i].enc = "nonzero",
                                  ![i].action = ActionAfterCalledProcessError]
    /\ UNCHANGED others

\* The file exiftool reads the tags from: copy_metadata's first argument.
TagSource(i) == Input(i)

\* The file exiftool writes before it renames it onto its destination.
ExifTmp(i) == Temp(i) \o <<"_exiftool_tmp">>

\* The destination c rewritten with the tags of the source t: a new file.
Retagged(c, t) ==
    [kind |-> c.kind, src |-> c.src, tags |-> t.tags, stamp |-> <<>>,
     writer |-> 0]

\* exiftool has exited non-zero: CalledProcessError is caught and printed
\* inside copy_metadata, and process_file goes on.
TagCopyExitsNonzero(i) ==
    task' = [task EXCEPT ![i].pc = NextStep("tagcopy"),
                         ![i].log = Append(@, "tag_nonzero")]

\* copy_metadata(input_file, temp_output) blocks in subprocess.run while
\* exiftool works in three steps, other calls running in between.  First
\* step: exiftool cannot be started (OSError, caught nowhere in
\* process_file), or it reads the tags of input_file, or it exits non-zero
\* (always so when that file is not there).
TagCopyRead(i) ==
    /\ PoolOpen
    /\ task[i].pc = "tagcopy"
    /\ \/ task' = [task EXCEPT ![i].pc = "raised",
                               ![i].log = Append(@, "tag_launch")]
       \/ /\ TagSource(i) \in DOMAIN fs
          /\ task' = [task EXCEPT ![i].pc = "tagwrite",
                                  ![i].tagread = <<fs[TagSource(i)]>>]
       \/ TagCopyExitsNonzero(i)
    /\ UNCHANGED <<fs, others>>

\* Second step: exiftool reads temp_output and writes it, with the tags it
\* has read, to a new file beside it.
TagCopyWrite(i) ==
    /\ PoolOpen
    /\ task[i].pc = "tagwrite"
    /\ \/ /\ Temp(i) \in DOMAIN fs
          /\ fs' = Put(fs, ExifTmp(i),
                       Retagged(fs[Temp(i)], task[i].tagread[1]))
          /\ Goto(i, "tagrename")
       \/ /\ TagCopyExitsNonzero(i)
          /\ UNCHANGED fs
    /\ UNCHANGED others

\* Third step (-overwrite_original): exiftool renames the new file onto
\* temp_output, over whatever is at that path by now, and exits with 0; or
\* it removes the new file and exits non-zero.
TagCopyRename(i) ==
    /\ PoolOpen
    /\ task[i].pc = "tagrename"
    /\ \/ /\ fs' = Put(Remove(fs, ExifTmp(i)), Temp(i), fs[ExifTmp(i)])
          /\ task' = [task EXCEPT ![i].pc = NextStep("tagcopy"),
                                  ![i].log = Append(@, "tag_ok")]
       \/ /\ fs' = Remove(fs, ExifTmp(i))
          /\ TagCopyExitsNonzero(i)
    /\ UNCHANGED others

\* os.replace(temp_output, input_file) or os.rename(temp_output, output_file):
\* the file moves in one step, or OSError leaves process_file.
Install(i) ==
    /\ PoolOpen
    /\ task[i].pc = "install"
    /\ \/ /\ Temp(i) \in DOMAIN fs
          /\ fs' = Put(Remove(fs, Temp(i)), Output(i), fs[Temp(i)])
          /\ task' = [task EXCEPT ![i].pc = NextStep("install"),
                                  ![i].log = Append(@, "install_ok")]
       \/ /\ task' = [task EXCEPT ![i].pc = "raised",
                                  ![i].log = Append(@, "install_fail")]
          /\ UNCHANGED fs
    /\ UNCHANGED others

\* The file shutil.copystat reads the times from: the first argument of
\* preserve_file_timestamps.
StampSource(i) == Input(i)

\* preserve_file_timestamps(input_file, output_file), then action = "OK".
\* shutil.copystat(src, dst) is four system calls, with no lock held across
\* them: stat(src), utime(dst), listxattr(src), chmod(dst).  The first that
\* fails (always so when its file is not there) ends copystat with an
\* exception, which preserve_file_timestamps catches and prints.  stamp
\* stands for the access and modification times, which utime writes.

\* copystat ends with an exception: printed, then action = "OK".
CopystatRaises(i) ==
    task' = [task EXCEPT ![i].pc = "done", ![i].action = "OK",
                         ![i].log = Append(@, "stamps_fail")]

\* st = os.stat(src)
StampsStat(i) ==
    /\ PoolOpen
    /\ task[i].pc = "stamps"
    /\ \/ /\ StampSource(i) \in DOMAIN fs
          /\ task' = [task EXCEPT ![i].pc = "utime",
                                  ![i].st = <<fs[StampSource(i)].stamp>>]
       \/ CopystatRaises(i)
    /\ UNCHANGED <<fs, others>>

\* os.utime(dst, ns=(st.st_atime_ns, st.st_mtime_ns))
StampsUtime(i) ==
    /\ PoolOpen
    /\ task[i].pc = "utime"
    /\ \/ /\ Output(i) \in DOMAIN fs
          /\ fs' = Put(fs, Output(i),
                       [fs[Output(i)] EXCEPT !.stamp = task[i].st[1]])
          /\ Goto(i, "xattr")
       \/ /\ CopystatRaises(i)
          /\ UNCHANGED fs
    /\ UNCHANGED others

\* _copyxattr(src, dst): os.listxattr(src); the files of the model carry no
\* extended attributes.
StampsXattr(i) ==
    /\ PoolOpen
    /\ task[i].pc = "xattr"
    /\ \/ /\ StampSource(i) \in DOMAIN fs
          /\ Goto(i, "chmod")
       \/ CopystatRaises(i)
    /\ UNCHANGED <<fs, others>>

\* os.chmod(dst, mode), the last call of copystat.
StampsChmod(i) ==
    /\ PoolOpen
    /\ task[i].pc = "chmod"
    /\ \/ /\ Output(i) \in DOMAIN fs
          /\ task' = [task EXCEPT ![i].pc = "done", ![i].action = "OK",
                                  ![i].copystat = TRUE,
                                  ![i].log = Append(@, "stamps_ok")]
       \/ CopystatRaises(i)
    /\ UNCHANGED <<fs, others>>

----------------------------------------------------------------------------
\* Main thread: the as_completed loop and the summary.

workers == <<invocable, fs, orig, config, media_files, task>>

\* The key the loop counts a result under: result[2].
SummaryKey(i) == ResultExt(Input(i))

\* One iteration of the loop for a future that returned.
Aggregate(i) ==
    /\ phase = "RUNNING"
    /\ task[i].pc = "done"
    /\ results[i] = <<>>
    /\ results' = [results EXCEPT
                     ![i] = <<Input(i), task[i].action, ResultExt(Input(i))>>]
    /\ completed_count' = completed_count + 1
    /\ summary' = Put(summary, SummaryKey(i), Get(summary, SummaryKey(i), 0) + 1)
    /\ UNCHANGED <<phase, report, workers>>

\* future.result() re-raises what process_file raised: the loop is left and
\* the with block waits for the pool.
Reraise(i) ==
    /\ phase = "RUNNING"
    /\ task[i].pc = "raised"
    /\ phase' = "UNWINDING"
    /\ UNCHANGED <<results, completed_count, summary, report, workers>>

\* The pool has shut down with the exception pending: no summary is printed.
Unwind ==
    /\ phase = "UNWINDING"
    /\ \A i \in Files : task[i].pc \in {"done", "raised"}
    /\ phase' = "ABORTED"
    /\ UNCHANGED <<results, completed_count, summary, report, workers>>

ReportExts == <<".jpg", ".jpeg", ".png", ".mp4">>

\* The loop has seen every future: the summary lines are printed.
Summarize ==
    /\ phase = "RUNNING"
    /\ \A i \in Files : results[i] # <<>>
    /\ report' = [k \in 1..Len(ReportExts) |->
                    <<ReportExts[k], Get(summary, ReportExts[k], 0)>>]
    /\ phase' = "DONE"
    /\ UNCHANGED <<results, completed_count, summary, workers>>

----------------------------------------------------------------------------
Next ==
    \/ CheckTools
    \/ Configure
    \/ Discover
    \/ \E i \in Files : Start(i)
    \/ \E i \in Files : Probe(i)
    \/ \E i \in Files : EncodeLaunch(i)
    \/ \E i \in Files : EncodeExit(i)
    \/ \E i \in Files : TagCopyRead(i)
    \/ \E i \in Files : TagCopyWrite(i)
    \/ \E i \in Files : TagCopyRename(i)
    \/ \E i \in Files : Install(i)
    \/ \E i \in Files : StampsStat(i)
    \/ \E i \in Files : StampsUtime(i)
    \/ \E i \in Files : StampsXattr(i)
    \/ \E i \in Files : StampsChmod(i)
    \/ \E i \in Files : Aggregate(i)
    \/ \E i \in Files : Reraise(i)
    \/ Unwind
    \/ Summarize

Spec == Init /\ [][Next]_vars

\* Every thread that can take a step eventually takes one.
FairSpec == Spec /\ WF_vars(Next)

\* The start of a run on given acceleration inputs, up to the resolved mode.
AccelInit == Start0 /\ hw \in HwInputs
AccelNext == CheckTools \/ ConfigureGiven
AccelSpec == AccelInit /\ [][AccelNext]_vars

----------------------------------------------------------------------------
\* Properties.

StoppedPhases == {"TOOLS_MISSING", "NO_FILES", "CRASHED", "DONE", "ABORTED"}

\* The run went through the pool and has ended.
PoolRunOver == phase \in {"DONE", "ABORTED"}

Recorded(i) == results[i] # <<>>

\* C1: when a run of the pipeline has ended, every file get_media_files
\* returned has exactly one outcome at the aggregator: none is left without
\* one and none is counted twice, whatever step failed for it or for another
\* file.
C1_EveryFileOneOutcome ==
    PoolRunOver =>
        /\ \A i \in Files : Recorded(i)
        /\ completed_count = Len(media_files)

\* C2: a run that passed the tool check and started the pool ends with the
\* summary printed: no failure of a single file leaves process_file, stops
\* the other files or prevents the summary.
C2_RunReachesSummary ==
    (phase \in StoppedPhases /\ Len(media_files) > 0 /\ batch_size >= 1) =>
        /\ phase = "DONE"
        /\ report # <<>>
        /\ \A i \in Files : task[i].pc = "done"

\* C3: in replace-original mode the original path of every discovered file
\* always holds a complete file: the original itself or the complete output
\* of an encoder run that exited with success; never nothing, never a
\* partial file.
C3_OriginalPathIntact ==
    replace_original =>
        \A i \in Files :
            /\ Input(i) \in DOMAIN fs
            /\ \/ fs[Input(i)] = orig[Input(i)]
               \/ fs[Input(i)].kind = "enc"

\* C4: a file whose encoder exited non-zero or could not be started has the
\* outcome ERROR recorded.
C4_EncoderFailureIsError ==
    \A i \in Files :
        (task[i].enc \in {"nonzero", "launch"} /\ task[i].pc = "done") =>
            task[i].action = "ERROR"

\* C5: after the run, a video above the threshold whose processing succeeded
\* (timestamp copy included) has, at its final path, the timestamps the
\* original had before the run, in replace-original mode as in
\* output-directory mode.
C5_TimestampsPreserved ==
    phase = "DONE" =>
        \A i \in Files :
            (/\ IsVideo(Input(i))
             /\ task[i].action = "OK"
             /\ task[i].copystat) =>
                /\ Output(i) \in DOMAIN fs
                /\ fs[Output(i)].stamp = orig[Input(i)].stamp

\* C6: in every reachable state the work items that run at the same time
\* are at most one when the effective acceleration mode is nvidia, and at
\* most batch_size of them when it is intel or cpu.
C6_NvidiaSequential ==
    InFlight > 0 =>
        /\ acceleration = "nvidia" => InFlight <= 1
        /\ acceleration \in {"intel", "cpu"} => InFlight <= batch_size

ReportTotal ==
    IF report = <<>> THEN 0
    ELSE report[1][2] + report[2][2] + report[3][2] + report[4][2]

\* C7: when the summary is printed, every file has an outcome and the counts
\* of its four extension lines add up to the number of discovered files.
C7_SummaryCountsAll ==
    phase = "DONE" =>
        /\ \A i \in Files : Recorded(i)
        /\ ReportTotal = Len(media_files)

\* C8: for an .mp4 file the encoder runs iff the probed bitrate (0 for a
\* failed or unparsable probe) is above the threshold; a file at or below it
\* is SKIPPED, no temporary file is created for it, and after the run its
\* bytes and timestamps are what they were before.
C8_SkipLeavesFileAlone ==
    \A i \in Files :
        (IsVideo(Input(i)) /\ task[i].bitrate >= 0) =>
            /\ (task[i].pc # "encode") =>
                   ((task[i].enc # "none" \/ task[i].pc = "encoding")
                        <=> task[i].bitrate > video_bitrate)
            /\ (task[i].bitrate <= video_bitrate) =>
                   /\ task[i].pc = "done" /\ task[i].action = "SKIPPED"
                   /\ Temp(i) \in DOMAIN fs => Temp(i) \in DOMAIN orig
                   /\ phase = "DONE" =>
                        /\ Input(i) \in DOMAIN fs
                        /\ fs[Input(i)] = orig[Input(i)]

\* C9: an image file in scope always has the encoder run, and the outcome
\* recorded for it is OK or ERROR, never SKIPPED.
C9_ImageNeverSkipped ==
    \A i \in Files :
        (IsImage(Input(i)) /\ Recorded(i)) =>
            /\ task[i].enc # "none"
            /\ results[i][2] \in {"OK", "ERROR"}

\* C10: once a file's outcome is recorded, nothing its encoder wrote is left
\* at its temporary path, so a later get_media_files finds no leftover.
C10_NoLeftoverTemp ==
    \A i \in Files :
        Recorded(i) =>
            ~(/\ Temp(i) \in DOMAIN fs
              /\ fs[Temp(i)].kind \in {"partial", "enc"}
              /\ task[i].enc # "none")

\* C11: while a required tool cannot be invoked the run never gets past the
\* startup check: it stops there with nothing discovered, no output directory
\* made and every file under the root as it was.
C11_AbortBeforeTouching ==
    (invocable # RequiredTools) =>
        /\ phase \in {"STARTUP", "TOOLS_MISSING"}
        /\ fs = orig
        /\ ~output_dir_made
        /\ media_files = <<>>
        /\ task = <<>>

\* C11 witness: the run has aborted on a missing exiftool.
C11_Witness ==
    /\ phase = "TOOLS_MISSING"
    /\ invocable = {"ffmpeg", "ffprobe"}
    /\ fs = orig /\ DOMAIN fs # {}

\* C12: the effective mode is cpu when intel is requested on a non-Intel
\* machine or nvidia/intel on an ARM machine, and the requested mode otherwise;
\* at most one warning is printed, and exactly one for intel on a non-Intel
\* machine, ARM or not.
C12_AccelerationResolved ==
    phase = "COLLECTING" =>
        /\ acceleration =
             IF \/ hw.requested = "intel" /\ ~hw.isIntel
                \/ hw.isArm /\ hw.requested \in {"nvidia", "intel"}
             THEN "cpu" ELSE hw.requested
        /\ warnings <= 1
        /\ (hw.requested = "intel" /\ ~hw.isIntel) => warnings = 1

\* C12 witness: intel requested on a non-Intel ARM machine resolved to cpu with
\* one warning.
C12_Witness ==
    /\ phase = "COLLECTING"
    /\ hw = [requested |-> "intel", isIntel |-> FALSE, isArm |-> TRUE]
    /\ acceleration = "cpu"
    /\ warnings = 1

Has(l, e) == \E k \in 1..Len(l) : l[k] = e

\* Every occurrence of an event of later in l has an event of earlier before it.
Precedes(l, earlier, later) ==
    \A k \in 1..Len(l) :
        l[k] \in later => \E j \in 1..(k - 1) : l[j] \in earlier

InstallAttempted(i) ==
    Has(task[i].log, "install_ok") \/ Has(task[i].log, "install_fail")

TagEvents == {"tag_ok", "tag_nonzero"}
StampEvents == {"stamps_ok", "stamps_fail"}

\* C13, as claimed: for every file the install comes only after the encoder
\* exited with success, and neither the tag copy nor the timestamp restore
\* comes before the install.
C13_MetadataAfterInstall ==
    \A i \in Files :
        /\ Precedes(task[i].log, {"encoded"}, {"install_ok"})
        /\ Precedes(task[i].log, {"install_ok"}, TagEvents \cup StampEvents)

\* exiftool runs for call i, or is about to be started.
TagCopyRunning(i) == task[i].pc \in {"tagcopy", "tagwrite", "tagrename"}

\* C13, amended: the tag copy runs only after the encoder exited with
\* success and, from its start to its exit, before the install; the install
\* comes only after the encoder's success and the exit of the tag copy; the
\* timestamp restore never comes before the install.
C13_StepOrder ==
    \A i \in Files :
        /\ Precedes(task[i].log, {"encoded"}, TagEvents \cup {"install_ok"})
        /\ Precedes(task[i].log, TagEvents, {"install_ok"})
        /\ Precedes(task[i].log, {"install_ok"}, StampEvents)
        /\ TagCopyRunning(i) =>
               /\ Has(task[i].log, "encoded")
               /\ ~InstallAttempted(i)
               /\ ~Has(task[i].log, "stamps_ok")
               /\ ~Has(task[i].log, "stamps_fail")

\* C13 witness: a file went through all four steps.
C13_Witness ==
    \E i \in Files :
        task[i].log = <<"encoded", "tag_ok", "install_ok", "stamps_ok">>

\* C14: in replace-original mode the file exiftool reads the tags from is the
\* true original of the file being processed.
C14_TagSourceIsOriginal ==
    replace_original =>
        \A i \in Files :
            task[i].tagread # <<>> => task[i].tagread[1] = orig[Input(i)]

TagCopyFailed(i) ==
    Has(task[i].log, "tag_nonzero") \/ Has(task[i].log, "tag_launch")

\* C15: after a successful encoder run, a failure of the tag copy does not
\* keep process_file from installing, and a file whose tag copy or timestamp
\* restore failed is installed and returned as OK.
C15_MetadataFailureKeepsOk ==
    \A i \in Files :
        /\ (TagCopyFailed(i) /\ task[i].pc \in {"done", "raised"}) =>
               InstallAttempted(i)
        /\ ((TagCopyFailed(i) \/ Has(task[i].log, "stamps_fail"))
                /\ task[i].pc = "done") =>
               /\ task[i].action = "OK"
               /\ Has(task[i].log, "install_ok")

Discovered == 1..Len(media_files)

\* C16: the temporary path of a discovered file is never the path of another
\* discovered file, and the file at a discovered path changes only by the
\* install of that file's own output in replace-original mode.
C16_TempPathsDisjoint ==
    /\ \A i, j \in Discovered : TempOutput(media_files[i]) # media_files[j]
    /\ \A j \in Files :
          (Input(j) \notin DOMAIN fs \/ fs[Input(j)] # orig[Input(j)]) =>
              (replace_original /\ Has(task[j].log, "install_ok"))

\* C17: in output-directory mode no two discovered files are installed to the
\* same final path.
C17_OutputsDistinct ==
    ~replace_original =>
        \A i, j \in Files :
            (/\ i # j
             /\ Has(task[i].log, "install_ok")
             /\ Has(task[j].log, "install_ok")) => Output(i) # Output(j)

----------------------------------------------------------------------------
\* What C3 and C8 come down to for a discovered file whose path is not the
\* temporary path of another discovered file (both hold).

NotATempPath(i) == \A j \in Files : Temp(j) # Input(i)

OriginalPathIntactWithoutCollision ==
    replace_original =>
        \A i \in Files :
            NotATempPath(i) =>
                /\ Input(i) \in DOMAIN fs
                /\ \/ fs[Input(i)] = orig[Input(i)]
                   \/ fs[Input(i)].kind = "enc"

SkipLeavesFileAloneWithoutCollision ==
    \A i \in Files :
        (IsVideo(Input(i)) /\ task[i].bitrate >= 0 /\ NotATempPath(i)) =>
            /\ (task[i].pc # "encode") =>
                   ((task[i].enc # "none" \/ task[i].pc = "encoding")
                        <=> task[i].bitrate > video_bitrate)
            /\ (task[i].bitrate <= video_bitrate) =>
                   /\ task[i].pc = "done" /\ task[i].action = "SKIPPED"
                   /\ Temp(i) \in DOMAIN fs => Temp(i) \in DOMAIN orig
                   /\ phase = "DONE" =>
                        /\ Input(i) \in DOMAIN fs
                        /\ fs[Input(i)] = orig[Input(i)]

\* What C14 comes down to without such a collision, and C15 for the failures
\* copy_metadata and preserve_file_timestamps catch (both hold).

TagSourceIsOriginalWithoutCollision ==
    replace_original =>
        \A i \in Files :
            (NotATempPath(i) /\ task[i].tagread # <<>>) =>
                task[i].tagread[1] = orig[Input(i)]

CaughtMetadataFailureKeepsOk ==
    \A i \in Files :
        /\ (Has(task[i].log, "tag_nonzero") /\ task[i].pc \in {"done", "raised"})
               => InstallAttempted(i)
        /\ ((Has(task[i].log, "tag_nonzero") \/ Has(task[i].log, "stamps_fail"))
                /\ task[i].pc = "done") =>
               /\ task[i].action = "OK"
               /\ Has(task[i].log, "install_ok")

\* What the pool does keep in every acceleration mode: the work items that
\* run at the same time are at most batch_size (holds).
PoolNeverExceedsBatchSize == InFlight > 0 => InFlight <= batch_size

====
